---- MODULE Spec2Model ----
(***************************************************************************)
(* A model of ModTranslator (translator_advance.py): the locator of the    *)
(* reference-language entries of an archive, the extraction of the JSON    *)
(* payload from the translation service's reply, the mutation of the       *)
(* archive through a temporary copy, and the run over a directory.         *)
(*                                                                         *)
(* A string is a sequence of one-character strings, so that the regular    *)
(* expression, str.replace, str.find and the slices act on characters as   *)
(* they do in the source.                                                  *)
(***************************************************************************)
EXTENDS Integers, Sequences, FiniteSets, TLC

VARIABLES
  dirExists,                \* Path(directory_path).exists()
  fs,                       \* the *.jar files of the directory, in listing order
  backup,                   \* the <jar>.backup sibling of each of them
  pc,                       \* the place of translate_mod_files
  jarIdx,                   \* for jar_file in jar_files
  language_files,           \* what the locator returned for the current archive
  entIdx,                   \* for lang_file in language_files
  total_files,
  successful_translations,
  translated_content,       \* the result of translate_json_with_gemini
  waited,                   \* time.sleep ran since the last request (or the start)
  fs0,                      \* history: the archives when the run began
  located,                  \* history: per archive located, the entries returned
  submitted,                \* history: <<archive, entry>> of every request sent
  accepted,                 \* history: the (source, translated) pairs written
  persisted,                \* history: how often an archive received an entry
  firstMutation,            \* history: per archive, its first successful mutation
  probe,                    \* one entry path through the locator and the mutator
  parse                     \* one reply through the payload extraction

runVars == <<dirExists, fs, backup, pc, jarIdx, language_files, entIdx, total_files,
             successful_translations, translated_content, waited, fs0, located,
             submitted, accepted, persisted, firstMutation>>

vars == <<runVars, probe, parse>>

(***************************************************************************)
(* Strings.                                                                *)
(***************************************************************************)
RECURSIVE Concat(_)
Concat(ss) == IF ss = <<>> THEN <<>> ELSE Head(ss) \o Concat(Tail(ss))

LowerOf ==
  ("A" :> "a") @@ ("B" :> "b") @@ ("C" :> "c") @@ ("D" :> "d") @@ ("E" :> "e") @@
  ("F" :> "f") @@ ("G" :> "g") @@ ("H" :> "h") @@ ("I" :> "i") @@ ("J" :> "j") @@
  ("K" :> "k") @@ ("L" :> "l") @@ ("M" :> "m") @@ ("N" :> "n") @@ ("O" :> "o") @@
  ("P" :> "p") @@ ("Q" :> "q") @@ ("R" :> "r") @@ ("S" :> "s") @@ ("T" :> "t") @@
  ("U" :> "u") @@ ("V" :> "v") @@ ("W" :> "w") @@ ("X" :> "x") @@ ("Y" :> "y") @@
  ("Z" :> "z")

LowerChar(c) == IF c \in DOMAIN LowerOf THEN LowerOf[c] ELSE c

\* str.lower(), the folding re.IGNORECASE applies to both sides of a match
Lower(s) == [i \in 1..Len(s) |-> LowerChar(s[i])]

\* s[i-1:i-1+len(sub)] == sub, with i counted from 1
StartsWithAt(s, sub, i) ==
  /\ i >= 1
  /\ i + Len(sub) - 1 <= Len(s)
  /\ \A k \in 1..Len(sub) : s[i + k - 1] = sub[k]

\* str.find(sub, start) counted from 1: the least index >= start where sub
\* begins, 0 when there is none (Python's -1)
Find(s, sub, start) ==
  LET hits == {i \in start..(Len(s) - Len(sub) + 1) : StartsWithAt(s, sub, i)}
  IN  IF hits = {} THEN 0 ELSE CHOOSE i \in hits : \A j \in hits : i <= j

\* sub in s
Contains(s, sub) == Find(s, sub, 1) # 0

\* str.replace(old, new): every non-overlapping occurrence, left to right
RECURSIVE ReplaceFrom(_, _, _, _)
ReplaceFrom(s, old, new, i) ==
  IF i > Len(s) THEN <<>>
  ELSE IF StartsWithAt(s, old, i)
       THEN new \o ReplaceFrom(s, old, new, i + Len(old))
       ELSE <<s[i]>> \o ReplaceFrom(s, old, new, i + 1)

Replace(s, old, new) == ReplaceFrom(s, old, new, 1)

\* str.split(sep) for a one-character separator
RECURSIVE SplitFrom(_, _, _, _)
SplitFrom(s, sep, i, cur) ==
  IF i > Len(s) THEN <<cur>>
  ELSE IF s[i] = sep
       THEN <<cur>> \o SplitFrom(s, sep, i + 1, <<>>)
       ELSE SplitFrom(s, sep, i + 1, Append(cur, s[i]))

Split(s, sep) == SplitFrom(s, sep, 1, <<>>)

\* the greatest index of character c in s, 0 when there is none (str.rfind)
RFindChar(s, c) ==
  LET hits == {i \in 1..Len(s) : s[i] = c}
  IN  IF hits = {} THEN 0 ELSE CHOOSE i \in hits : \A j \in hits : j <= i

\* os.path.basename: what follows the last slash
Basename(p) == SubSeq(p, RFindChar(p, "/") + 1, Len(p))

\* os.path.splitext(name)[0]: the extension starts at the last dot, unless
\* only dots precede it
SplitextRoot(name) ==
  LET d == RFindChar(name, ".")
  IN  IF d = 0 \/ (\A k \in 1..d : name[k] = ".") THEN name
      ELSE SubSeq(name, 1, d - 1)

(***************************************************************************)
(* The words of the paths this model uses.                                 *)
(***************************************************************************)
W_assets == <<"a","s","s","e","t","s">>
W_ASSETS == <<"A","S","S","E","T","S">>
W_data == <<"d","a","t","a">>
W_meta == <<"M","E","T","A">>
W_lang == <<"l","a","n","g">>
W_Lang == <<"L","a","n","g">>
W_langs == <<"l","a","n","g","s">>
W_foo == <<"f","o","o">>
W_bar == <<"b","a","r">>
W_unknown == <<"u","n","k","n","o","w","n">>
W_en_us == <<"e","n","_","u","s">>
W_en_us_json == <<"e","n","_","u","s",".","j","s","o","n">>
W_EN_US_json == <<"E","N","_","U","S",".","j","s","o","n">>
W_en_US_JSON == <<"e","n","_","U","S",".","J","S","O","N">>
W_ja_jp_json == <<"j","a","_","j","p",".","j","s","o","n">>
W_en_gb_json == <<"e","n","_","g","b",".","j","s","o","n">>
W_en_us_lang == <<"e","n","_","u","s",".","l","a","n","g">>
W_xen_us_json == <<"x","e","n","_","u","s",".","j","s","o","n">>
W_en_us_json_nl == <<"e","n","_","u","s",".","j","s","o","n","\n">>

Slash == <<"/">>

JoinPath(segs) ==
  LET RECURSIVE J(_)
      J(ss) == IF Len(ss) = 1 THEN Head(ss)
               ELSE Head(ss) \o Slash \o J(Tail(ss))
  IN  IF segs = <<>> THEN <<>> ELSE J(segs)

(***************************************************************************)
(* find_language_files_in_jar: the pattern, and the tags of an entry.      *)
(***************************************************************************)
\* ModTranslator's  (assets|data)/[^/]+/lang/en_us\.json$  with re.match
\* (anchored at the start) and re.IGNORECASE; $ also matches before one
\* final newline.  [^/]+ takes no slash and the rest is literal, so a match
\* is a path of exactly four segments.
LangPatternMatch(file_path) ==
  LET parts == Split(file_path, "/")
  IN  /\ Len(parts) = 4
      /\ Lower(parts[1]) \in {W_assets, W_data}
      /\ parts[2] # <<>>
      /\ Lower(parts[3]) = W_lang
      /\ Lower(parts[4]) \in {W_en_us_json, W_en_us_json_nl}

extract_mod_id(file_path) ==
  LET parts == Split(file_path, "/")
  IN  IF Len(parts) >= 3 /\ parts[2] # <<>> THEN parts[2] ELSE W_unknown

extract_lang_code(file_path) == SplitextRoot(Basename(file_path))

(***************************************************************************)
(* save_translated_json_to_jar: the path of the added entry.               *)
(***************************************************************************)
DerivePath(original_path) == Replace(original_path, W_en_us_json, W_ja_jp_json)

(***************************************************************************)
(* Mappings, entry bytes, archives.                                        *)
(***************************************************************************)
\* A JSON object is the set of its <<key, value>> pairs.
Keys(m) == {kv[1] : kv \in m}

SourceMapping == {<<"item.sword", "Sword">>, <<"item.shield", "Shield">>}
OldJapanese == {<<"item.sword", "Tsurugi">>, <<"item.shield", "Tate">>}
Translated == {<<"item.sword", "Ken">>, <<"item.shield", "Tate">>}
TranslatedMissing == {<<"item.sword", "Ken">>}
TranslatedExtra == Translated \cup {<<"item.bow", "Yumi">>}

\* json.dumps(content, ensure_ascii=False, indent=2).encode('utf-8')
JsonBytes(m) == [kind |-> "json", value |-> m]
\* bytes that do not decode as UTF-8 or do not parse as JSON
BinaryBytes == [kind |-> "binary", value |-> {}]

\* jar.read(file_info).decode('utf-8') then json.loads: whether both succeed
Loadable(data) == data.kind = "json"
JsonLoads(data) == data.value

Entry(filename, data) == [filename |-> filename, data |-> data]

NoFile == [exists |-> FALSE, valid |-> FALSE, entries |-> <<>>]
\* a file that is no ZIP archive: a corrupt header, or a copy cut short
NotAZip == [exists |-> TRUE, valid |-> FALSE, entries |-> <<>>]
Zip(entries) == [exists |-> TRUE, valid |-> TRUE, entries |-> entries]

\* the archive opened in mode 'w', which starts it anew
WriteStrTruncating(file, filename, data) == Zip(<<Entry(filename, data)>>)

\* zipfile.ZipFile(path, 'a') then writestr: the entry is appended after the
\* entries the file has; a file that is no archive gets a new archive
\* appended to it, which holds the one entry
WriteStr(file, filename, data) ==
  Zip(Append(IF file.valid THEN file.entries ELSE <<>>, Entry(filename, data)))

\* ZipFile.read(name) / getinfo(name): the last entry of that name
HasName(file, name) ==
  file.valid /\ \E i \in 1..Len(file.entries) : file.entries[i].filename = name

ReadByName(file, name) ==
  LET hits == {i \in 1..Len(file.entries) : file.entries[i].filename = name}
  IN  file.entries[CHOOSE i \in hits : \A j \in hits : j <= i].data

Names(file) ==
  IF file.valid THEN {file.entries[i].filename : i \in 1..Len(file.entries)} ELSE {}

(***************************************************************************)
(* find_language_files_in_jar.                                             *)
(***************************************************************************)
LangFile(e) ==
  [path |-> e.filename, content |-> JsonLoads(e.data),
   mod_id |-> extract_mod_id(e.filename), lang_code |-> extract_lang_code(e.filename)]

RECURSIVE ScanEntries(_)
ScanEntries(entries) ==
  IF entries = <<>> THEN <<>>
  ELSE LET e == Head(entries)
       IN  IF LangPatternMatch(e.filename) /\ Loadable(e.data)
           THEN <<LangFile(e)>> \o ScanEntries(Tail(entries))
           ELSE ScanEntries(Tail(entries))

\* zipfile.BadZipFile (and any other exception of the open) is caught: no entry
find_language_files_in_jar(file) ==
  IF ~file.valid THEN <<>> ELSE ScanEntries(file.entries)

(***************************************************************************)
(* translate_json_with_gemini: from the reply to the mapping.              *)
(***************************************************************************)
\* "^" stands for the backquote character, which a TLA+ string cannot hold
Fence == <<"^", "^", "^">>
JsonTag == <<"j", "s", "o", "n">>
FenceJson == Fence \o JsonTag
Newline == <<"\n">>
Prose == <<"x">>

\* One character stands for the text of one JSON object: the translation of
\* SourceMapping with its keys, with a key missing, with a key added, and {}.
JsonAtoms == {"{=}", "{-}", "{+}", "{}"}

AtomValue(a) ==
  CASE a = "{=}" -> Translated
    [] a = "{-}" -> TranslatedMissing
    [] a = "{+}" -> TranslatedExtra
    [] OTHER -> {}

Whitespace == {" ", "\n", "\t"}

\* str.strip()
Strip(s) ==
  LET keep == {i \in 1..Len(s) : s[i] \notin Whitespace}
  IN  IF keep = {} THEN <<>>
      ELSE SubSeq(s, CHOOSE i \in keep : \A j \in keep : i <= j,
                     CHOOSE i \in keep : \A j \in keep : j <= i)

\* the two tests in the other order: the first fence decides, tagged or not
ExtractPayloadAnyFenceFirst(translated_text) ==
  IF Contains(translated_text, Fence)
  THEN LET start == Find(translated_text, Fence, 1) + 3
           end == Find(translated_text, Fence, start)
       IN  IF end # 0 THEN Strip(SubSeq(translated_text, start, end - 1))
           ELSE translated_text
  ELSE translated_text

\* lines 114-123: the text handed to json.loads
ExtractPayload(translated_text) ==
  IF Contains(translated_text, FenceJson)
  THEN LET start == Find(translated_text, FenceJson, 1) + 7
           end == Find(translated_text, Fence, start)
       IN  IF end # 0 THEN Strip(SubSeq(translated_text, start, end - 1))
           ELSE translated_text
  ELSE IF Contains(translated_text, Fence)
  THEN LET start == Find(translated_text, Fence, 1) + 3
           end == Find(translated_text, Fence, start)
       IN  IF end # 0 THEN Strip(SubSeq(translated_text, start, end - 1))
           ELSE translated_text
  ELSE translated_text

\* json.loads raises JSONDecodeError unless the text, white space aside, is
\* one JSON value
JsonParses(text) == Len(Strip(text)) = 1 /\ Strip(text)[1] \in JsonAtoms

None == [ok |-> FALSE, value |-> {}]
Some(m) == [ok |-> TRUE, value |-> m]

\* The reply of client.models.generate_content: it raised, or it has a text
\* (empty when response.text is None or "").
Raised == [raised |-> TRUE, text |-> <<>>]
Reply(text) == [raised |-> FALSE, text |-> text]

translate_json_with_gemini(response) ==
  IF response.raised THEN None
  ELSE IF response.text = <<>> THEN None
  ELSE LET payload == ExtractPayload(response.text)
       IN  IF JsonParses(payload) THEN Some(AtomValue(Strip(payload)[1]))
           ELSE None

\* if translated_content:
Truthy(r) == r.ok /\ r.value # {}

(***************************************************************************)
(* save_translated_json_to_jar.  fault names the step that raises:         *)
(*   copy            shutil.copy2(jar_path, temp_jar_path)                 *)
(*   append          ZipFile(temp_jar_path, 'a') / writestr                *)
(*   backup_open     shutil.copy2(jar_path, backup_path), nothing written  *)
(*   backup_partial  the same copy, cut short: a partial backup_path stays *)
(*   move            shutil.move, jar_path not opened for writing          *)
(*   move_partial    shutil.move where os.rename is refused (another file  *)
(*                   system than the temporary directory's; an existing    *)
(*                   destination on Windows) and the copy onto jar_path,   *)
(*                   which truncates it first, is cut short                *)
(* The backup step runs only when backup_path does not exist.              *)
(***************************************************************************)
Faults ==
  {"none", "copy", "append", "backup_open", "backup_partial", "move", "move_partial"}

ApplicableFaults(bak) ==
  IF bak.exists THEN Faults \ {"backup_open", "backup_partial"} ELSE Faults

Outcome(jar, bak, ret) == [jar |-> jar, backup |-> bak, ret |-> ret]

\* the backup copied without the test that none exists yet
save_without_exists_test(jar, bak, original_path, content, fault) ==
  LET ja_jp_path == DerivePath(original_path)
      temp == WriteStr(jar, ja_jp_path, JsonBytes(content))
  IN  CASE fault \in {"copy", "append"} -> Outcome(jar, bak, FALSE)
        [] fault = "backup_open" -> Outcome(jar, bak, FALSE)
        [] fault = "backup_partial" -> Outcome(jar, NotAZip, FALSE)
        [] fault = "move" -> Outcome(jar, jar, FALSE)
        [] fault = "move_partial" -> Outcome(NotAZip, jar, FALSE)
        [] OTHER -> Outcome(temp, jar, TRUE)

save_translated_json_to_jar(jar, bak, original_path, content, fault) ==
  LET ja_jp_path == DerivePath(original_path)
      temp == WriteStr(jar, ja_jp_path, JsonBytes(content))
      bak2 == IF bak.exists THEN bak ELSE jar
  IN  CASE fault \in {"copy", "append"} -> Outcome(jar, bak, FALSE)
        [] fault = "backup_open" -> Outcome(jar, bak, FALSE)
        [] fault = "backup_partial" -> Outcome(jar, NotAZip, FALSE)
        [] fault = "move" -> Outcome(jar, bak2, FALSE)
        [] fault = "move_partial" -> Outcome(NotAZip, bak2, FALSE)
        [] OTHER -> Outcome(temp, bak2, TRUE)

(***************************************************************************)
(* The directories a run starts from.                                      *)
(***************************************************************************)
MaxJars == 2
MaxEntries == 3

P_foo_en_us == JoinPath(<<W_assets, W_foo, W_lang, W_en_us_json>>)
P_bar_EN_US == JoinPath(<<W_data, W_bar, W_lang, W_EN_US_json>>)
P_foo_ja_jp == JoinPath(<<W_assets, W_foo, W_lang, W_ja_jp_json>>)
P_bar_en_us == JoinPath(<<W_assets, W_bar, W_lang, W_en_us_json>>)

\* a reference-language file, one whose name is in upper case, a Japanese
\* file the mod ships already, and a reference-language file that is not UTF-8
EntryPool ==
  <<Entry(P_foo_en_us, JsonBytes(SourceMapping)),
    Entry(P_bar_EN_US, JsonBytes(SourceMapping)),
    Entry(P_foo_ja_jp, JsonBytes(OldJapanese)),
    Entry(P_bar_en_us, BinaryBytes)>>

RECURSIVE Pick(_, _)
Pick(S, i) ==
  IF i > Len(EntryPool) THEN <<>>
  ELSE IF i \in S THEN <<EntryPool[i]>> \o Pick(S, i + 1) ELSE Pick(S, i + 1)

InitialArchives ==
  {NotAZip} \cup {Zip(Pick(S, 1)) : S \in SUBSET (1..Len(EntryPool))}

RECURSIVE TotalEntries(_, _)
TotalEntries(files, i) ==
  IF i > Len(files) THEN 0 ELSE Len(files[i].entries) + TotalEntries(files, i + 1)

\* up to MaxJars archives, which hold up to MaxEntries entries in all
InitialDirectories ==
  UNION {{d \in [1..n -> InitialArchives] : TotalEntries(d, 1) <= MaxEntries} :
         n \in 0..MaxJars}

\* what the translation service may answer to one request
RunResponses ==
  {Raised, Reply(<<>>), Reply(Prose),
   Reply(Concat(<<FenceJson, Newline, <<"{=}">>, Newline, Fence>>)),
   Reply(Concat(<<FenceJson, Newline, <<"{-}">>, Newline, Fence>>)),
   Reply(<<"{=}">>), Reply(<<"{}">>),
   Reply(Concat(<<Prose, Newline, FenceJson, <<"{=}">>>>))}

NoMutation == [done |-> FALSE, clean |-> FALSE, before |-> NoFile, count |-> 0]

\* the sub-models' variables while the run is the subject, and the reverse
NoProbe == [stage |-> "off"]
NoParse == [stage |-> "off"]

InitRun ==
  /\ fs \in InitialDirectories
  /\ backup = [j \in 1..Len(fs) |-> NoFile]
  /\ dirExists \in (IF fs = <<>> THEN BOOLEAN ELSE {TRUE})
  /\ firstMutation = [j \in 1..Len(fs) |-> NoMutation]
  /\ fs0 = fs
  /\ pc = "start"
  /\ jarIdx = 0
  /\ language_files = <<>>
  /\ entIdx = 0
  /\ total_files = 0
  /\ successful_translations = 0
  /\ translated_content = None
  /\ waited = FALSE
  /\ located = <<>>
  /\ submitted = <<>>
  /\ accepted = {}
  /\ persisted = 0

Init == InitRun /\ probe = NoProbe /\ parse = NoParse

(***************************************************************************)
(* translate_mod_files.                                                    *)
(***************************************************************************)
jar_files == [i \in 1..Len(fs) |-> i]

\* line 232: sum(len(self.find_language_files_in_jar(str(jf))) for jf in jar_files)
RECURSIVE SumLocated(_, _)
SumLocated(files, i) ==
  IF i > Len(files) THEN 0
  ELSE Len(find_language_files_in_jar(files[i])) + SumLocated(files, i + 1)

\* lines 185-199: the directory must exist and list an archive
Start ==
  /\ pc = "start"
  /\ IF ~dirExists \/ Len(jar_files) = 0
     THEN pc' = "done" /\ jarIdx' = jarIdx
     ELSE pc' = "jar" /\ jarIdx' = 1
  /\ UNCHANGED <<dirExists, fs, backup, language_files, entIdx, total_files,
                 successful_translations, translated_content, waited, fs0, located,
                 submitted, accepted, persisted, firstMutation, probe, parse>>

\* the locator without its except clauses: a file that is no archive ends the run
LocateUncaught ==
  /\ pc = "jar"
  /\ jarIdx <= Len(jar_files)
  /\ LET found == find_language_files_in_jar(fs[jar_files[jarIdx]])
     IN  /\ language_files' = found
         /\ located' = IF fs[jar_files[jarIdx]].valid THEN Append(located, found)
                       ELSE located
         /\ IF ~fs[jar_files[jarIdx]].valid
            THEN pc' = "done" /\ jarIdx' = jarIdx /\ entIdx' = entIdx
            ELSE IF found = <<>>
            THEN pc' = "jar" /\ jarIdx' = jarIdx + 1 /\ entIdx' = entIdx
            ELSE pc' = "entry" /\ jarIdx' = jarIdx /\ entIdx' = 1
  /\ UNCHANGED <<dirExists, fs, backup, total_files, successful_translations,
                 translated_content, waited, fs0, submitted, accepted, persisted,
                 firstMutation, probe, parse>>

\* lines 201-209: the next archive of the listing is located
Locate ==
  /\ pc = "jar"
  /\ jarIdx <= Len(jar_files)
  /\ LET found == find_language_files_in_jar(fs[jar_files[jarIdx]])
     IN  /\ language_files' = found
         /\ located' = Append(located, found)
         /\ IF found = <<>>
            THEN pc' = "jar" /\ jarIdx' = jarIdx + 1 /\ entIdx' = entIdx
            ELSE pc' = "entry" /\ jarIdx' = jarIdx /\ entIdx' = 1
  /\ UNCHANGED <<dirExists, fs, backup, total_files, successful_translations,
                 translated_content, waited, fs0, submitted, accepted, persisted,
                 firstMutation, probe, parse>>

\* total_files counted only when the translation succeeded
TranslateStepCountingSuccesses(response) ==
  /\ LET result == translate_json_with_gemini(response)
     IN  IF Truthy(result)
         THEN pc' = "save" /\ translated_content' = result
              /\ total_files' = total_files + 1
         ELSE pc' = "delay" /\ translated_content' = None
              /\ total_files' = total_files
  /\ submitted' = Append(submitted, <<jarIdx, entIdx>>)
  /\ waited' = FALSE

\* lines 211-221: one request to the translation service
TranslateStep(response) ==
  /\ total_files' = total_files + 1
  /\ LET result == translate_json_with_gemini(response)
     IN  IF Truthy(result)
         THEN pc' = "save" /\ translated_content' = result
         ELSE pc' = "delay" /\ translated_content' = None
  /\ submitted' = Append(submitted, <<jarIdx, entIdx>>)
  /\ waited' = FALSE

Translate ==
  /\ pc = "entry"
  /\ \E response \in RunResponses : TranslateStep(response)
  /\ UNCHANGED <<dirExists, fs, backup, jarIdx, language_files, entIdx,
                 successful_translations, fs0, located, accepted, persisted,
                 firstMutation, probe, parse>>

\* lines 223-227: the translated mapping is written into the archive
SaveStep(fault) ==
  LET j == jar_files[jarIdx]
      lang_file == language_files[entIdx]
      r == save_translated_json_to_jar(fs[j], backup[j], lang_file.path,
                                       translated_content.value, fault)
      wrote == r.jar.valid /\ r.jar # fs[j]
  IN  /\ fs' = [fs EXCEPT ![j] = r.jar]
      /\ backup' = [backup EXCEPT ![j] = r.backup]
      /\ successful_translations' = successful_translations + (IF r.ret THEN 1 ELSE 0)
      /\ persisted' = persisted + (IF wrote THEN 1 ELSE 0)
      /\ accepted' = IF wrote
                     THEN accepted \cup {[source |-> lang_file.content,
                                          translated |-> translated_content.value]}
                     ELSE accepted
      /\ firstMutation' =
           IF ~r.ret THEN firstMutation
           ELSE [firstMutation EXCEPT ![j] =
                   IF @.done THEN [@ EXCEPT !.count = @ + 1]
                   ELSE [done |-> TRUE, clean |-> ~backup[j].exists,
                         before |-> fs[j], count |-> 1]]

Save ==
  /\ pc = "save"
  /\ \E fault \in ApplicableFaults(backup[jar_files[jarIdx]]) : SaveStep(fault)
  /\ translated_content' = None
  /\ pc' = "delay"
  /\ UNCHANGED <<dirExists, jarIdx, language_files, entIdx, total_files, waited, fs0,
                 located, submitted, probe, parse>>

\* the comparison of line 232 off by one
RateLimitWaitsOffByOne == total_files <= SumLocated(fs, 1)

\* line 232: whether the delay is waited
RateLimitWaits == total_files < SumLocated(fs, 1)

\* lines 231-234, and the two loops' steps

RateLimit ==
  /\ pc = "delay"
  /\ waited' = (waited \/ RateLimitWaits)
  /\ IF entIdx < Len(language_files)
     THEN pc' = "entry" /\ entIdx' = entIdx + 1 /\ jarIdx' = jarIdx
     ELSE pc' = "jar" /\ entIdx' = entIdx /\ jarIdx' = jarIdx + 1
  /\ UNCHANGED <<dirExists, fs, backup, language_files, total_files,
                 successful_translations, translated_content, fs0, located, submitted,
                 accepted, persisted, firstMutation, probe, parse>>

\* lines 236-242: the summary
Finish ==
  /\ pc = "jar"
  /\ jarIdx > Len(jar_files)
  /\ pc' = "done"
  /\ UNCHANGED <<dirExists, fs, backup, jarIdx, language_files, entIdx, total_files,
                 successful_translations, translated_content, waited, fs0, located,
                 submitted, accepted, persisted, firstMutation, probe, parse>>

Next == Start \/ Locate \/ Translate \/ Save \/ RateLimit \/ Finish

Spec == Init /\ [][Next]_vars

(***************************************************************************)
(* One entry path through the locator and the mutator: an archive that     *)
(* holds one JSON entry at the path is located and, when the locator       *)
(* yields the entry, given its translation.                                *)
(***************************************************************************)
ProbeRoots == {W_assets, W_ASSETS, W_data, W_meta}
ProbeNamespaces == {W_foo, W_bar, <<>>, W_en_us_json}
ProbeDirs == {W_lang, W_Lang, W_langs}
ProbeFiles ==
  {W_en_us_json, W_EN_US_json, W_en_US_JSON, W_ja_jp_json, W_en_gb_json,
   W_en_us_lang, W_xen_us_json, W_en_us_json_nl}

ProbePaths ==
  {JoinPath(<<r, n, d, f>>) :
     r \in ProbeRoots, n \in ProbeNamespaces, d \in ProbeDirs, f \in ProbeFiles}
  \cup {JoinPath(<<r, n, d, W_foo, f>>) : r \in {W_assets}, n \in {W_foo},
                                          d \in {W_lang}, f \in ProbeFiles}
  \cup {JoinPath(<<W_foo, r, n, d, f>>) : r \in {W_assets}, n \in {W_foo},
                                          d \in {W_lang}, f \in ProbeFiles}

IdleRun ==
  /\ dirExists = FALSE
  /\ fs = <<>>
  /\ backup = <<>>
  /\ pc = "off"
  /\ jarIdx = 0
  /\ language_files = <<>>
  /\ entIdx = 0
  /\ total_files = 0
  /\ successful_translations = 0
  /\ translated_content = None
  /\ waited = FALSE
  /\ fs0 = <<>>
  /\ located = <<>>
  /\ submitted = <<>>
  /\ accepted = {}
  /\ persisted = 0
  /\ firstMutation = <<>>

InitPaths ==
  /\ IdleRun
  /\ parse = NoParse
  /\ \E p \in ProbePaths : probe = [stage |-> "archive", path |-> p]

LocateAndSave ==
  /\ probe.stage = "archive"
  /\ LET jar == Zip(<<Entry(probe.path, JsonBytes(SourceMapping))>>)
         found == find_language_files_in_jar(jar)
         r == save_translated_json_to_jar(jar, NoFile, probe.path, Translated, "none")
     IN  probe' = [stage |-> "done", path |-> probe.path, found |-> found,
                   ja_jp_path |-> IF found = <<>> THEN <<>>
                                  ELSE r.jar.entries[Len(r.jar.entries)].filename]
  /\ UNCHANGED <<runVars, parse>>

NextPaths == LocateAndSave

SpecPaths == InitPaths /\ [][NextPaths]_vars

(***************************************************************************)
(* One reply through translate_json_with_gemini.                           *)
(***************************************************************************)
MaxChunks == 6

ReplyChunks == {Fence, JsonTag, Newline, Prose, <<"{=}">>}

RECURSIVE ChunkSeqs(_)
ChunkSeqs(n) ==
  IF n = 0 THEN {<<>>}
  ELSE LET shorter == ChunkSeqs(n - 1)
       IN  shorter \cup {Append(cs, c) : cs \in shorter, c \in ReplyChunks}

\* the non-empty reply texts of up to MaxChunks chunks
ReplyTexts == {Concat(cs) : cs \in ChunkSeqs(MaxChunks)} \ {<<>>}

InitReply ==
  /\ IdleRun
  /\ probe = NoProbe
  /\ \E t \in ReplyTexts : parse = [stage |-> "reply", text |-> t]

ParseReply ==
  /\ parse.stage = "reply"
  /\ parse' = [stage |-> "done", text |-> parse.text,
               payload |-> ExtractPayload(parse.text),
               result |-> translate_json_with_gemini(Reply(parse.text))]
  /\ UNCHANGED <<runVars, probe>>

NextReply == ParseReply

SpecReply == InitReply /\ [][NextReply]_vars

(***************************************************************************)
(* What the claims speak of.                                               *)
(***************************************************************************)
\* the step in which save_translated_json_to_jar returns True, and False
SaveSucceeds ==
  pc = "save" /\ pc' = "delay" /\ successful_translations' = successful_translations + 1

SaveFails ==
  pc = "save" /\ pc' = "delay" /\ successful_translations' = successful_translations

\* the located entries in the order of the two loops
RECURSIVE EnumerateFrom(_, _, _)
EnumerateFrom(loc, j, k) ==
  IF j > Len(loc) THEN <<>>
  ELSE IF k > Len(loc[j]) THEN EnumerateFrom(loc, j + 1, 1)
  ELSE <<<<j, k>>>> \o EnumerateFrom(loc, j, k + 1)

Enumerate(loc) == EnumerateFrom(loc, 1, 1)

\* the resource-path grammar  ^(assets|data)/[^/]+/lang/[^/]+\.json$  (any case)
GrammarMatch(path) ==
  LET parts == Split(path, "/")
  IN  /\ Len(parts) = 4
      /\ Lower(parts[1]) \in {W_assets, W_data}
      /\ parts[2] # <<>>
      /\ Lower(parts[3]) = W_lang
      /\ Len(parts[4]) > 5
      /\ Lower(SubSeq(parts[4], Len(parts[4]) - 4, Len(parts[4]))) = <<".", "j", "s", "o", "n">>

(***************************************************************************)
(* C1.  Backup-once: when an archive had no .backup at its first           *)
(* successful mutation, the .backup holds, after that mutation and after   *)
(* every later one, the archive as it was just before the first.           *)
(***************************************************************************)
C1_BackupOnce ==
  \A j \in DOMAIN fs :
    (firstMutation[j].done /\ firstMutation[j].clean)
      => backup[j] = firstMutation[j].before

\* two successful mutations of one archive that had no backup
C1_Witness ==
  \E j \in DOMAIN fs :
    /\ firstMutation[j].clean
    /\ firstMutation[j].count >= 2
    /\ backup[j] = fs0[j]
    /\ fs[j] # fs0[j]

(***************************************************************************)
(* C2.  Key-set equivalence: every translated mapping written into an      *)
(* archive has the key set of the mapping it was translated from.          *)
(***************************************************************************)
C2_KeySetEquivalence ==
  \A a \in accepted : Keys(a.translated) = Keys(a.source)

(***************************************************************************)
(* C3.  Mutation atomicity: a call of save_translated_json_to_jar that     *)
(* fails leaves the archive file as it was before the call.                *)
(***************************************************************************)
C3_FailureLeavesArchive == [][SaveFails => fs' = fs]_vars

(***************************************************************************)
(* C4.  Original content preserved, as claimed: after a successful         *)
(* mutation every path the archive had reads back with the content it      *)
(* had, and one entry was added at the derived path.  The statement is     *)
(* taken for the entries whose derived path differs from their own path,   *)
(* so that its failure does not rest on the path derivation (C8).          *)
(***************************************************************************)
C4_EveryPathReadsBack ==
  [][(SaveSucceeds
        /\ DerivePath(language_files[entIdx].path) # language_files[entIdx].path) =>
       LET j == jar_files[jarIdx]
       IN  /\ Len(fs'[j].entries) = Len(fs[j].entries) + 1
           /\ \A name \in Names(fs[j]) :
                /\ HasName(fs'[j], name)
                /\ ReadByName(fs'[j], name) = ReadByName(fs[j], name)]_vars

(***************************************************************************)
(* C4, amended.  After a successful mutation the entries the archive had   *)
(* are still in it, in their places and with their contents, one entry     *)
(* was added after them at the derived path with the translated mapping,   *)
(* every path but the derived one reads back as before, and no other       *)
(* archive changed.                                                        *)
(***************************************************************************)
C4_EntriesKept ==
  [][SaveSucceeds =>
       LET j == jar_files[jarIdx]
           old == IF fs[j].valid THEN fs[j].entries ELSE <<>>
           new == fs'[j].entries
           ja_jp_path == DerivePath(language_files[entIdx].path)
       IN  /\ fs'[j].valid
           /\ Len(new) = Len(old) + 1
           /\ SubSeq(new, 1, Len(old)) = old
           /\ new[Len(new)] = Entry(ja_jp_path, JsonBytes(translated_content.value))
           /\ \A name \in Names(fs[j]) \ {ja_jp_path} :
                /\ HasName(fs'[j], name)
                /\ ReadByName(fs'[j], name) = ReadByName(fs[j], name)
           /\ \A k \in DOMAIN fs \ {j} : fs'[k] = fs[k]]_vars

\* a mutated archive that holds two entries of one path
C4_Witness ==
  \E j \in DOMAIN fs :
    /\ firstMutation[j].done
    /\ fs[j].valid
    /\ \E a, b \in 1..Len(fs[j].entries) :
         a < b /\ fs[j].entries[a].filename = fs[j].entries[b].filename

(***************************************************************************)
(* C5.  Rate limiting, as claimed: every translation request is sent       *)
(* after a wait that followed the previous request (or the start).         *)
(***************************************************************************)
C5_WaitBeforeEachRequest == [][total_files' = total_files + 1 => waited]_vars

(***************************************************************************)
(* C5, amended.  No wait precedes the first request or falls between a     *)
(* request and the handling of its reply; once a request has been handled, *)
(* whether it succeeded or failed, the delay was waited exactly when the   *)
(* number of requests sent is below the number of entries the locator      *)
(* yields over the archives of the listing as they then are.               *)
(***************************************************************************)
C5_WaitAfterRequest ==
  /\ total_files = 0 => ~waited
  /\ pc \in {"save", "delay"} => ~waited
  /\ (pc \in {"jar", "entry", "done"} /\ total_files >= 1)
       => (waited <=> total_files < SumLocated(fs, 1))

\* the wait after a failed request, before the next one
C5_Witness ==
  /\ pc = "entry"
  /\ waited
  /\ total_files >= 1
  /\ successful_translations = 0

(***************************************************************************)
(* C6.  Reference-language filter: every entry the locator yields has a    *)
(* path of the resource-path grammar, the file name en_us.json in exactly  *)
(* that spelling, and the language code en_us.                             *)
(***************************************************************************)
C6_ReferenceFilter ==
  probe.stage = "done" =>
    \A i \in 1..Len(probe.found) :
      /\ GrammarMatch(probe.found[i].path)
      /\ Basename(probe.found[i].path) = W_en_us_json
      /\ probe.found[i].lang_code = W_en_us

(***************************************************************************)
(* C7.  Failure isolation: an archive that is no archive yields no entry;  *)
(* whatever failed on the way, the requests sent are at every moment the   *)
(* located entries in their order with none left out, and when the run     *)
(* ends every archive of the listing was located and every located entry   *)
(* was submitted.                                                          *)
(***************************************************************************)
IsPrefix(a, b) == Len(a) <= Len(b) /\ SubSeq(b, 1, Len(a)) = a

C7_FailureIsolation ==
  /\ \A j \in 1..Len(located) : ~fs0[j].valid => located[j] = <<>>
  /\ IsPrefix(submitted, Enumerate(located))
  /\ (pc = "done" /\ dirExists)
       => /\ Len(located) = Len(jar_files)
          /\ submitted = Enumerate(located)

\* a finished run over a bad archive followed by one whose entries failed
C7_Witness ==
  /\ pc = "done"
  /\ Len(fs0) = 2
  /\ ~fs0[1].valid
  /\ total_files >= 1
  /\ persisted < total_files

(***************************************************************************)
(* C8.  Path derivation: the derived path of a yielded entry keeps the     *)
(* root, namespace and lang segments, ends in ja_jp.json and so differs    *)
(* from the original path.                                                 *)
(***************************************************************************)
C8_PathDerivation ==
  (probe.stage = "done" /\ probe.found # <<>>) =>
    LET o == Split(probe.path, "/")
        d == Split(probe.ja_jp_path, "/")
    IN  /\ Len(d) = 4
        /\ SubSeq(d, 1, 3) = SubSeq(o, 1, 3)
        /\ d[4] = W_ja_jp_json
        /\ probe.ja_jp_path # probe.path

(***************************************************************************)
(* C9.  Payload extraction, as claimed: the text handed to the parser is   *)
(* the content of the first fenced block of the reply, tagged json or not, *)
(* and the whole reply when it has no fenced block.                        *)
(***************************************************************************)
FirstBlockOpen(t) == Find(t, Fence, 1)
FirstBlockClose(t) == Find(t, Fence, FirstBlockOpen(t) + 3)
HasBlock(t) == FirstBlockOpen(t) # 0 /\ FirstBlockClose(t) # 0

\* what stands between the fences, the json tag of the opening fence aside
FirstBlockContent(t) ==
  LET open == FirstBlockOpen(t)
      from == IF StartsWithAt(t, JsonTag, open + 3) THEN open + 7 ELSE open + 3
  IN  SubSeq(t, from, FirstBlockClose(t) - 1)

C9_FirstFencedBlock ==
  parse.stage = "done" =>
    parse.payload = IF HasBlock(parse.text) THEN Strip(FirstBlockContent(parse.text))
                    ELSE parse.text

(***************************************************************************)
(* C9, amended.  When the reply holds a json-tagged fence, the payload is  *)
(* what stands between the first such fence and the next fence after it,   *)
(* trimmed, and the whole reply when no fence follows; when it holds       *)
(* fences but none tagged json, the same from the first fence; without a   *)
(* fence, the whole reply.  The result is the parsed mapping when the      *)
(* payload parses and None when it does not.                               *)
(***************************************************************************)
Least(S) == CHOOSE i \in S : \A j \in S : i <= j

Occurrences(t, sub) == {i \in 1..Len(t) : StartsWithAt(t, sub, i)}

PayloadAfter(t, from) ==
  LET closing == {i \in Occurrences(t, Fence) : i >= from}
  IN  IF closing = {} THEN t ELSE Strip(SubSeq(t, from, Least(closing) - 1))

C9_TaggedFenceFirst ==
  parse.stage = "done" =>
    /\ parse.payload =
         IF Occurrences(parse.text, FenceJson) # {}
         THEN PayloadAfter(parse.text, Least(Occurrences(parse.text, FenceJson)) + 7)
         ELSE IF Occurrences(parse.text, Fence) # {}
         THEN PayloadAfter(parse.text, Least(Occurrences(parse.text, Fence)) + 3)
         ELSE parse.text
    /\ IF JsonParses(parse.payload)
       THEN parse.result = Some(Translated)
       ELSE parse.result = None

\* a reply whose first fenced block is untagged prose and is followed by a
\* tagged block: the tagged block is what was parsed
C9_Witness ==
  /\ parse.stage = "done"
  /\ HasBlock(parse.text)
  /\ FirstBlockContent(parse.text) = Prose
  /\ Occurrences(parse.text, FenceJson) # {}
  /\ parse.payload = <<"{=}">>
  /\ parse.result = Some(Translated)

(***************************************************************************)
(* C10.  Exactly-once processing and termination: every step of the run    *)
(* uses up part of a finite budget and the run can step until it is done;  *)
(* when it is done, the entries submitted are those the locator finds in   *)
(* the archives as they were at the start, each once; the entries          *)
(* attempted are those submitted, and the count of successes is the        *)
(* number of entries that were written into an archive.                    *)
(***************************************************************************)
RECURSIVE EntriesFrom(_, _)
EntriesFrom(files, j) ==
  IF j > Len(files) THEN 0
  ELSE 1 + 3 * Len(files[j].entries) + EntriesFrom(files, j + 1)

\* a bound on the steps the run has left
Remaining ==
  CASE pc = "start" -> 2 + EntriesFrom(fs, 1)
    [] pc = "jar" -> 1 + EntriesFrom(fs, jarIdx)
    [] pc = "entry" ->
         1 + EntriesFrom(fs, jarIdx + 1) + 3 * (Len(language_files) - entIdx) + 3
    [] pc = "save" ->
         1 + EntriesFrom(fs, jarIdx + 1) + 3 * (Len(language_files) - entIdx) + 2
    [] pc = "delay" ->
         1 + EntriesFrom(fs, jarIdx + 1) + 3 * (Len(language_files) - entIdx) + 1
    [] OTHER -> 0

RunCanStep ==
  \/ pc \in {"start", "jar", "delay"}
  \/ pc = "entry" /\ entIdx \in 1..Len(language_files)
  \/ pc = "save" /\ entIdx \in 1..Len(language_files) /\ Truthy(translated_content)

C10_AtDone ==
  pc = "done" =>
    /\ located = [j \in 1..Len(located) |-> find_language_files_in_jar(fs0[j])]
    /\ submitted = Enumerate(located)
    /\ \A a, b \in 1..Len(submitted) : submitted[a] = submitted[b] => a = b
    /\ total_files = Len(submitted)
    /\ successful_translations = persisted
    /\ successful_translations <= total_files

====
